---------------------------- MODULE Spec2Model ----------------------------
(***************************************************************************)
(* Model of netease-deduplicate-web: main.py (parse_id, normalize_title,   *)
(* logic_crawler and the set-algebra functions over pandas tables) and the *)
(* four Streamlit flows of web_app.py plus the CLI module_crawler.         *)
(*                                                                         *)
(* Python strings are sequences of one-character strings; None is the      *)
(* value None below.  A pandas DataFrame is [cols, rows]: the set of its   *)
(* column names and the sequence of its rows (functions on cols).          *)
(***************************************************************************)
EXTENDS Integers, Sequences, FiniteSets, TLC

VARIABLES
    \* --- normalize_title applied to one title ---
    title,      \* the argument
    nkey,       \* the value returned
    npc,        \* "call" | "done" ("off": not part of the run)
    \* --- one call of a set-algebra function on fetched playlists ---
    nameA,      \* the name logic_crawler returned for playlist A
    dfA,        \* its table
    nameB,      \* the same for playlist B
    dfB,
    call,       \* the call made: [fn, mode, names, dfs, order]
    ret,        \* what it returned or raised
    \* --- the callers: a run of web_app.py, or of main.py's module_crawler ---
    flow,       \* "idle" | "internal" | "intersection" | "difference" | "union" | "cli"
    pc,         \* where the run is
    inputs,     \* [u1, u2, fuzzy]: the text fields and the mode option
    pids,       \* <<p1, p2>>: what parse_id made of them
    fetched,    \* <<r1, r2>>: the (name, df, err) of each fetch
    cache,      \* st.cache_data of cached_fetch: pid -> (name, df, err)
    crawl,      \* the running call of logic_crawler
    crawled,    \* the pids logic_crawler was called with in this run
    engine,     \* the set-algebra calls of this run
    out         \* what the run showed: [kind, text]

normVars == <<title, nkey, npc>>
engVars == <<nameA, dfA, nameB, dfB, call, ret>>
flowVars == <<flow, pc, inputs, pids, fetched, cache, crawl, crawled, engine, out>>
vars == <<normVars, engVars, flowVars>>

(***************************************************************************)
(* Strings                                                                 *)
(***************************************************************************)
\* Python's None, where a string is expected.
None == <<"None">>

\* The characters the model's strings are made of, with their code points
\* (Python orders strings by code point).  "FW(" and "FW)" are the one
\* character each of the full-width parentheses U+FF08 and U+FF09.
Ord == [c \in {" ", "(", ")", "-", "/", "0", "1", "2", "3", "4", "5", "6", "7", "8", "9",
               "=", "A", "X", "a", "b", "d", "i", "x", "y", "FW(", "FW)"} |->
          CASE c = " " -> 32 [] c = "(" -> 40 [] c = ")" -> 41 [] c = "-" -> 45
            [] c = "/" -> 47
            [] c = "0" -> 48 [] c = "1" -> 49 [] c = "2" -> 50 [] c = "3" -> 51
            [] c = "4" -> 52 [] c = "5" -> 53 [] c = "6" -> 54 [] c = "7" -> 55
            [] c = "8" -> 56 [] c = "9" -> 57
            [] c = "=" -> 61 [] c = "A" -> 65 [] c = "X" -> 88
            [] c = "a" -> 97 [] c = "b" -> 98 [] c = "d" -> 100 [] c = "i" -> 105
            [] c = "x" -> 120 [] c = "y" -> 121
            [] c = "FW(" -> 65288 [] c = "FW)" -> 65289]

DecimalDigits == <<"0", "1", "2", "3", "4", "5", "6", "7", "8", "9">>

\* str(n) of a natural number n
RECURSIVE str(_)
str(n) ==
    IF n < 10 THEN <<DecimalDigits[n + 1]>>
    ELSE Append(str(n \div 10), DecimalDigits[(n % 10) + 1])

IsDigit(c) == \E k \in 1..Len(DecimalDigits) : DecimalDigits[k] = c
IsSpace(c) == c = " "
IsOpen(c) == c \in {"FW(", "("}
IsClose(c) == c \in {"FW)", ")"}
\* what "." of a regular expression matches: anything but a line break
IsDot(c) == c # "\n"

\* s[i..j] (1-based, inclusive), empty when j < i
Slice(s, i, j) == SubSeq(s, i, j)

\* the least index >= p of s whose character satisfies Test, Len(s)+1 if none
FirstFrom(s, p, Test(_)) ==
    LET hits == {i \in p..Len(s) : Test(s[i])} IN
    IF hits = {} THEN Len(s) + 1
    ELSE CHOOSE i \in hits : \A j \in hits : i <= j

NotSpace(c) == ~IsSpace(c)
NotDigit(c) == ~IsDigit(c)

\* s < t in Python's order on strings
RECURSIVE StrLess(_, _)
StrLess(s, t) ==
    IF t = <<>> THEN FALSE
    ELSE IF s = <<>> THEN TRUE
    ELSE IF Ord[Head(s)] # Ord[Head(t)] THEN Ord[Head(s)] < Ord[Head(t)]
    ELSE StrLess(Tail(s), Tail(t))

StrLeq(s, t) == s = t \/ StrLess(s, t)

\* the sequences over S of length at most n
RECURSIVE SeqsUpTo(_, _)
SeqsUpTo(S, n) ==
    IF n = 0 THEN {<<>>}
    ELSE LET shorter == SeqsUpTo(S, n - 1) IN
         shorter \cup {Append(s, c) : s \in {t \in shorter : Len(t) = n - 1}, c \in S}

(***************************************************************************)
(* parse_id                                                                *)
(***************************************************************************)
\* re.search(r'id=(\d+)', s): the least position where "id=" and a digit
\* follow, 0 when there is none
IdMatchAt(s, p) ==
    /\ p + 3 <= Len(s)
    /\ s[p] = "i" /\ s[p + 1] = "d" /\ s[p + 2] = "="
    /\ IsDigit(s[p + 3])

IdSearch(s) ==
    IF \E p \in 1..Len(s) : IdMatchAt(s, p)
    THEN CHOOSE p \in 1..Len(s) :
            IdMatchAt(s, p) /\ \A q \in 1..(p - 1) : ~IdMatchAt(s, q)
    ELSE 0

\* str.isdigit(): not empty and every character a digit
isdigit(s) == s # <<>> /\ \A i \in 1..Len(s) : IsDigit(s[i])

parse_id(url) ==
    LET p == IdSearch(url) IN
    IF p # 0 THEN Slice(url, p + 3, FirstFrom(url, p + 3, NotDigit) - 1)
    ELSE IF isdigit(url) THEN url
    ELSE None

(***************************************************************************)
(* normalize_title                                                         *)
(***************************************************************************)
\* str.lower(): the capital letters of the model's strings and their small ones
LowerOf(c) == CASE c = "A" -> "a" [] c = "X" -> "x" [] OTHER -> c

lower(s) == [i \in 1..Len(s) |-> LowerOf(s[i])]

\* The end of the match of \s*[FW(\(].*?[FW)\)] that starts at p, 0 when the
\* pattern does not match there: the blanks from p, an opening parenthesis,
\* and lazily up to the nearest closing one, with no line break between.
ParenMatchEnd(s, p) ==
    LET q == FirstFrom(s, p, NotSpace)
        r == FirstFrom(s, q + 1, IsClose)
    IN  IF q <= Len(s) /\ IsOpen(s[q]) /\ r <= Len(s)
           /\ \A k \in (q + 1)..(r - 1) : IsDot(s[k])
        THEN r ELSE 0

\* the least start >= p of a match, 0 when there is none
ParenSearch(s, p) ==
    IF \E i \in p..Len(s) : ParenMatchEnd(s, i) # 0
    THEN CHOOSE i \in p..Len(s) :
            ParenMatchEnd(s, i) # 0 /\ \A j \in p..(i - 1) : ParenMatchEnd(s, j) = 0
    ELSE 0

\* re.sub(pattern, '', s, count): every non-overlapping match from the left is
\* deleted, at most count of them when count > 0 (count = 0: all of them)
RECURSIVE ParenSubFrom(_, _, _)
ParenSubFrom(s, p, count) ==
    LET m == ParenSearch(s, p) IN
    IF m = 0 THEN Slice(s, p, Len(s))
    ELSE Slice(s, p, m - 1) \o
         (IF count = 1 THEN Slice(s, ParenMatchEnd(s, m) + 1, Len(s))
          ELSE ParenSubFrom(s, ParenMatchEnd(s, m) + 1,
                            IF count = 0 THEN 0 ELSE count - 1))

\* the bug of passing count=1 to re.sub
ParenSubFirstOnly(s) == ParenSubFrom(s, 1, 1)

\* re.sub(r'\s*[FW(\(].*?[FW)\)]', '', core)
ParenSub(s) == ParenSubFrom(s, 1, 0)

IsHyphen(c) == c = "-"
\* if '-' in core: core = core.split('-')[0]
SplitHyphen(s) == Slice(s, 1, FirstFrom(s, 1, IsHyphen) - 1)

RECURSIVE strip(_)
strip(s) ==
    IF s = <<>> THEN s
    ELSE IF IsSpace(Head(s)) THEN strip(Tail(s))
    ELSE IF IsSpace(s[Len(s)]) THEN strip(Slice(s, 1, Len(s) - 1))
    ELSE s

\* normalize_title on a str argument (titles are strings throughout)
normalize_title(t) == strip(SplitHyphen(ParenSub(lower(t))))

(***************************************************************************)
(* pandas                                                                  *)
(***************************************************************************)
\* F applied to the value of x, which is evaluated once
Bind(x, F(_)) == CHOOSE r \in {F(v) : v \in {x}} : TRUE

\* pd.DataFrame(): no columns, no rows
EmptyFrame == [cols |-> {}, rows |-> <<>>]

\* pd.DataFrame(list of dicts): the columns are the dicts' keys; an empty
\* list gives a table with no columns at all
DataFrame(dicts) ==
    IF dicts = <<>> THEN EmptyFrame
    ELSE [cols |-> UNION {DOMAIN dicts[k] : k \in 1..Len(dicts)}, rows |-> dicts]

\* an exception raised instead of a value returned
KeyError(col) == [exc |-> "KeyError", key |-> col]
IsRaised(v) == "exc" \in DOMAIN v

\* the rows of a sequence that satisfy Keep, in their order
RECURSIVE SelectRows(_, _)
SelectRows(rows, keep) ==
    \* keep is the set of the positions to keep
    IF rows = <<>> THEN <<>>
    ELSE LET rest == SelectRows(Slice(rows, 1, Len(rows) - 1), keep) IN
         IF Len(rows) \in keep THEN Append(rest, rows[Len(rows)]) ELSE rest

\* df[col] = the value of f on each row
WithColumn(df, col, f(_)) ==
    [cols |-> df.cols \cup {col},
     rows |-> [k \in 1..Len(df.rows) |->
                 [c \in df.cols \cup {col} |->
                    IF c = col THEN f(df.rows[k]) ELSE df.rows[k][c]]]]

\* df[list of columns]
Project(df, cols) ==
    [cols |-> cols, rows |-> [k \in 1..Len(df.rows) |-> [c \in cols |-> df.rows[k][c]]]]

\* df.drop(columns=[col])
DropColumn(df, col) == Project(df, df.cols \ {col})

\* df.rename(columns={old: new})
RenameColumn(df, old, new) ==
    LET cols == (df.cols \ {old}) \cup {new} IN
    [cols |-> cols,
     rows |-> [k \in 1..Len(df.rows) |->
                 [c \in cols |-> IF c = new THEN df.rows[k][old] ELSE df.rows[k][c]]]]

\* the set of the values of a column
ColumnSet(df, col) == {df.rows[k][col] : k \in 1..Len(df.rows)}

\* df.empty: no rows or no columns
IsEmpty(df) == df.rows = <<>> \/ df.cols = {}

\* pd.concat(frames, ignore_index=True); a column a frame lacks is NaN in its
\* rows
RECURSIVE ConcatRows(_)
ConcatRows(frames) ==
    IF frames = <<>> THEN <<>> ELSE Head(frames).rows \o ConcatRows(Tail(frames))

concat(frames) ==
    LET cols == UNION {frames[k].cols : k \in 1..Len(frames)}
        rows == ConcatRows(frames)
    IN  [cols |-> cols,
         rows |-> [k \in 1..Len(rows) |->
                     [c \in cols |-> IF c \in DOMAIN rows[k] THEN rows[k][c]
                                     ELSE <<"NaN">>]]]

\* DataFrame.drop_duplicates(subset=[col], keep='first'): an empty table is
\* returned as it is, before the column is looked up
drop_duplicates(df, col) ==
    IF IsEmpty(df) THEN df
    ELSE IF col \notin df.cols THEN KeyError(col)
    ELSE [cols |-> df.cols,
          rows |-> SelectRows(df.rows,
                      {k \in 1..Len(df.rows) :
                          \A j \in 1..(k - 1) : df.rows[j][col] # df.rows[k][col]})]

\* the name pd.merge gives a column of the right table that the left one has
\* too, under suffixes=('', f'_{i}')
Suffixed ==
    [c \in {"title", "artist", "album", "duration"} |->
        CASE c = "title" -> <<"title_1", "title_2", "title_3">>
          [] c = "artist" -> <<"artist_1", "artist_2", "artist_3">>
          [] c = "album" -> <<"album_1", "album_2", "album_3">>
          [] c = "duration" -> <<"duration_1", "duration_2", "duration_3">>]

\* the pairs of rows of the inner join: each left row, in order, with each
\* right row of the same id, in order
RECURSIVE MergePairs(_, _)
MergePairs(lrows, rrows) ==
    IF lrows = <<>> THEN <<>>
    ELSE LET l == Head(lrows)
             hits == SelectRows(rrows, {k \in 1..Len(rrows) : rrows[k]["id"] = l["id"]})
         IN  [k \in 1..Len(hits) |-> <<l, hits[k]>>] \o MergePairs(Tail(lrows), rrows)

\* pd.merge(left, right, on='id', how='inner', suffixes=('', f'_{i}'))
merge(left, right, i) ==
    IF "id" \notin left.cols \/ "id" \notin right.cols THEN KeyError("id")
    ELSE LET rname(c) == IF c \in left.cols THEN Suffixed[c][i] ELSE c
             rcols == right.cols \ {"id"}
             cols == left.cols \cup {rname(c) : c \in rcols}
             join(l, r) ==
                 [c \in cols |->
                    IF c \in left.cols THEN l[c]
                    ELSE r[CHOOSE d \in rcols : rname(d) = c]]
             pairs == MergePairs(left.rows, right.rows)
         IN  [cols |-> cols,
              rows |-> [k \in 1..Len(pairs) |-> join(pairs[k][1], pairs[k][2])]]

\* the order of sort_values(by=['clean_title', 'artist'])
RowBefore(r1, r2) ==
    \/ StrLess(r1["clean_title"], r2["clean_title"])
    \/ r1["clean_title"] = r2["clean_title"] /\ StrLess(r1["artist"], r2["artist"])

\* rows sorted by RowBefore, rows that compare equal staying in their order
\* (each row is inserted after the rows that are not after it)
RECURSIVE SortRows(_)
SortRows(rows) ==
    IF rows = <<>> THEN <<>>
    ELSE Bind(SortRows(Slice(rows, 1, Len(rows) - 1)), LAMBDA done :
             LET r == rows[Len(rows)]
                 n == Cardinality({k \in 1..Len(done) : ~RowBefore(r, done[k])})
             IN  Slice(done, 1, n) \o <<r>> \o Slice(done, n + 1, Len(done)))

\* df.sort_values(by=['clean_title', 'artist'])
sort_values(df) ==
    IF {"clean_title", "artist"} \subseteq df.cols
    THEN [cols |-> df.cols, rows |-> SortRows(df.rows)]
    ELSE KeyError("artist")

(***************************************************************************)
(* The set-algebra functions of main.py.  Each returns its value, or the   *)
(* exception that the first failing pandas operation raises.               *)
(***************************************************************************)
\* df['title'].apply(normalize_title), row by row
clean(row) == normalize_title(row["title"])

base_cols == {"id", "title", "artist", "album", "duration"}

\* The result's column of the normalized key and its tag of a song that both
\* playlists hold: two Chinese strings in the source, named here by their
\* meaning.
MatchKeyCol == "match_key"
BothTag == <<"BOTH">>

\* res = pd.merge(res, dfs[i], ...) for i = from .. len(dfs)-1 (0-based)
RECURSIVE MergeFrom(_, _, _)
MergeFrom(res, dfs, i) ==
    IF i > Len(dfs) - 1 THEN res
    ELSE Bind(merge(res, dfs[i + 1], i), LAMBDA m :
             IF IsRaised(m) THEN m ELSE MergeFrom(m, dfs, i + 1))

logic_strict_intersection(dfs) ==
    IF dfs = <<>> THEN EmptyFrame
    ELSE Bind(MergeFrom(dfs[1], dfs, 1), LAMBDA res :
             IF IsRaised(res) THEN res
             ELSE Project(res, base_cols \cap res.cols))

\* s.replace(pat, ""): every occurrence of pat, from the left, is deleted
RECURSIVE Remove(_, _)
Remove(s, pat) ==
    IF Len(s) < Len(pat) THEN s
    ELSE IF Slice(s, 1, Len(pat)) = pat THEN Remove(Slice(s, Len(pat) + 1, Len(s)), pat)
    ELSE <<Head(s)>> \o Remove(Tail(s), pat)

\* name.replace("playlist_", "").replace(".csv", "")
ShortName(name) ==
    Remove(Remove(name, <<"p", "l", "a", "y", "l", "i", "s", "t", "_">>),
           <<".", "c", "s", "v">>)

\* f'[A] {s_name1}' and f'[B] {s_name2}'
TagA(name) == <<"[", "A", "]", " ">> \o ShortName(name)
TagB(name) == <<"[", "B", "]", " ">> \o ShortName(name)

\* sorted(keys)
RECURSIVE sorted(_)
sorted(keys) ==
    IF keys = {} THEN <<>>
    ELSE LET least == CHOOSE k \in keys : \A j \in keys : StrLeq(k, j) IN
         <<least>> \o sorted(keys \ {least})

\* the rows of a table whose normalized key is key
SubFrame(df, key) ==
    SelectRows(df.rows, {k \in 1..Len(df.rows) : df.rows[k]["clean_title"] = key})

IdSet(rows) == {rows[k]["id"] : k \in 1..Len(rows)}

\* one row of the result
FuzzyRow(key, source, row) ==
    [c \in {MatchKeyCol, "source", "title", "artist", "album", "id"} |->
        CASE c = MatchKeyCol -> key
          [] c = "source" -> source
          [] OTHER -> row[c]]

\* the bug of leaving out the filter: every row of sub
OnlyInUnfiltered(sub, common_ids) == sub

\* sub[~sub['id'].isin(common_ids)]
OnlyIn(sub, common_ids) ==
    SelectRows(sub, {k \in 1..Len(sub) : sub[k]["id"] \notin common_ids})

\* what one key adds to final_rows; order is the order in which Python
\* iterates over the set common_ids
RowsOfKey(key, name1, d1, name2, d2, order) ==
    LET sub_a == SubFrame(d1, key)
        sub_b == SubFrame(d2, key)
        common_ids == IdSet(sub_a) \cap IdSet(sub_b)
        sids == SelectRows(order, {k \in 1..Len(order) : order[k] \in common_ids})
        first(sid) == sub_a[CHOOSE k \in 1..Len(sub_a) :
                              /\ sub_a[k]["id"] = sid
                              /\ \A j \in 1..(k - 1) : sub_a[j]["id"] # sid]
        only_a == OnlyIn(sub_a, common_ids)
        only_b == OnlyIn(sub_b, common_ids)
    IN  [k \in 1..Len(sids) |-> FuzzyRow(key, BothTag, first(sids[k]))]
        \o [k \in 1..Len(only_a) |-> FuzzyRow(key, TagA(name1), only_a[k])]
        \o [k \in 1..Len(only_b) |-> FuzzyRow(key, TagB(name2), only_b[k])]

RECURSIVE FinalRows(_, _, _, _, _, _)
FinalRows(keys, name1, d1, name2, d2, order) ==
    IF keys = <<>> THEN <<>>
    ELSE RowsOfKey(Head(keys), name1, d1, name2, d2, order)
         \o FinalRows(Tail(keys), name1, d1, name2, d2, order)

\* returns [df, count]
logic_fuzzy_intersection(name1, df1, name2, df2, order) ==
    IF "title" \notin df1.cols \/ "title" \notin df2.cols THEN KeyError("title")
    ELSE Bind(WithColumn(df1, "clean_title", clean), LAMBDA d1 :
         Bind(WithColumn(df2, "clean_title", clean), LAMBDA d2 :
         Bind(ColumnSet(d1, "clean_title") \cap ColumnSet(d2, "clean_title"),
              LAMBDA common_keys :
             IF common_keys = {} THEN [df |-> EmptyFrame, count |-> 0]
             ELSE [df |-> DataFrame(FinalRows(sorted(common_keys), name1, d1, name2, d2,
                                              order)),
                   count |-> Cardinality(common_keys)])))

logic_difference(df_a, df_b, mode) ==
    IF mode = "strict"
    THEN IF "id" \notin df_a.cols \/ "id" \notin df_b.cols THEN KeyError("id")
         ELSE [cols |-> df_a.cols,
               rows |-> SelectRows(df_a.rows,
                           {k \in 1..Len(df_a.rows) :
                               df_a.rows[k]["id"] \notin ColumnSet(df_b, "id")})]
    ELSE IF "title" \notin df_a.cols \/ "title" \notin df_b.cols THEN KeyError("title")
         ELSE Bind(WithColumn(df_a, "c", clean), LAMBDA a :
              Bind(ColumnSet(WithColumn(df_b, "c", clean), "c"), LAMBDA b_c :
                  DropColumn([cols |-> a.cols,
                              rows |-> SelectRows(a.rows,
                                          {k \in 1..Len(a.rows) :
                                              a.rows[k]["c"] \notin b_c})],
                             "c")))

logic_union(dfs, mode) ==
    IF dfs = <<>> THEN EmptyFrame
    ELSE IF mode = "fuzzy" /\ \E k \in 1..Len(dfs) : "title" \notin dfs[k].cols
    THEN KeyError("title")
    ELSE Bind([k \in 1..Len(dfs) |->
                 IF mode = "fuzzy" THEN WithColumn(dfs[k], "clean_title", clean)
                 ELSE dfs[k]], LAMBDA processed_dfs :
         Bind(concat(processed_dfs), LAMBDA union_df :
             IF mode = "strict" THEN drop_duplicates(union_df, "id")
             ELSE Bind(drop_duplicates(union_df, "clean_title"), LAMBDA res :
                  IF IsRaised(res) THEN res ELSE DropColumn(res, "clean_title"))))

logic_internal_check(df) ==
    IF "title" \notin df.cols THEN KeyError("title")
    ELSE Bind(WithColumn(df, "clean_title", clean), LAMBDA d :
         \* df[df.duplicated(subset=['clean_title'], keep=False)]
         Bind([cols |-> d.cols,
               rows |-> SelectRows(d.rows,
                           {k \in 1..Len(d.rows) :
                               \E j \in 1..Len(d.rows) :
                                   j # k /\ d.rows[j]["clean_title"]
                                            = d.rows[k]["clean_title"]})], LAMBDA dupes :
             IF IsEmpty(dupes) THEN EmptyFrame
             ELSE Bind(sort_values(dupes), LAMBDA srt :
                  IF IsRaised(srt) THEN srt
                  ELSE Bind(Project(srt, {"clean_title", "title", "artist", "album",
                                          "duration"}), LAMBDA cut :
                       RenameColumn(cut, "clean_title", MatchKeyCol)))))

(***************************************************************************)
(* What the remote service holds, and the rows logic_crawler makes of it   *)
(***************************************************************************)
\* The song of track id i as GetTrackDetail returns it: three kinds of song,
\* by i modulo 3.  Tracks 1 and 2 share the normalized title "x".
RemoteSong(i) ==
    CASE i % 3 = 1 -> [id |-> i, name |-> <<"x">>, ar |-> <<<<"b">>>>,
                       al |-> <<"a">>, dt |-> 61000]
      [] i % 3 = 2 -> [id |-> i, name |-> <<"X", " ", "(", "a", ")">>,
                       ar |-> <<<<"a">>, <<"b">>>>, al |-> None, dt |-> 600000]
      [] OTHER     -> [id |-> i, name |-> <<"y", "-", "a">>, ar |-> <<<<"a">>>>,
                       al |-> <<"a">>, dt |-> 59999]

\* "/".join(names)
RECURSIVE join(_)
join(names) ==
    IF names = <<>> THEN <<>>
    ELSE IF Len(names) = 1 THEN names[1]
    ELSE names[1] \o <<"/">> \o join(Tail(names))

\* f"{n:02d}"
Pad2(n) == IF n < 10 THEN <<"0">> \o str(n) ELSE str(n)

\* the dict logic_crawler appends to all_songs for one song
SongRow(song) ==
    [id |-> str(song.id),
     title |-> song.name,
     artist |-> join(song.ar),
     album |-> IF song.al # None THEN song.al ELSE <<>>,
     duration |-> Pad2(song.dt \div 60000) \o <<":">> \o Pad2((song.dt % 60000) \div 1000)]

SongRows(ids) == [k \in 1..Len(ids) |-> SongRow(RemoteSong(ids[k]))]

(***************************************************************************)
(* logic_crawler                                                           *)
(***************************************************************************)
batch_size == 500

\* the df of a failed fetch: Python's None where a table is expected
NoneDF == [none |-> TRUE]
IsNone(df) == "none" \in DOMAIN df

\* the texts str(e) of the exceptions a remote call raises, and the message
\* of line 50, a Chinese sentence in the source
ErrTexts == {<<"e">>}
ApiNoData == <<"API_NO_DATA">>

\* the numbers of tracks of the playlists of the service
Totals == {0, batch_size + 1}

\* the name of the playlists of the service
PlaylistName == <<"a", "/", "b">>

\* int(s) of a string of digits
RECURSIVE int(_)
int(s) ==
    IF s = <<>> THEN 0
    ELSE 10 * int(Slice(s, 1, Len(s) - 1))
         + (CHOOSE d \in 0..9 : DecimalDigits[d + 1] = s[Len(s)])

\* the songs of GetTrackDetail(chunk)
TrackDetail(chunk) == [k \in 1..Len(chunk) |-> RemoteSong(int(chunk[k]))]

\* nothing fetched yet, nothing shown yet
NoFetch == <<None, NoneDF, None>>
NoOutput == [kind |-> "none", text |-> <<>>]

NoCrawl ==
    [stage |-> "idle", pid |-> None, name |-> None, track_ids |-> <<>>, i |-> 0,
     all_songs |-> <<>>, remote |-> <<>>, result |-> NoFetch]

\* logic_crawler(pid) is entered
CrawlStart(pid) == [NoCrawl EXCEPT !.stage = "info", !.pid = pid]

\* lines 48-55: GetPlaylistInfo(pid) raises (or answers a playlist without
\* name or trackIds, a KeyError), answers without 'playlist', or answers a
\* playlist of total tracks (the service has no playlist for the id None)
CrawlerGetInfo ==
    /\ crawl.stage = "info"
    /\ \/ \E e \in ErrTexts :
            crawl' = [crawl EXCEPT !.stage = "returned",
                                   !.remote = Append(@, "raise"),
                                   !.result = <<None, NoneDF, e>>]
       \/ crawl' = [crawl EXCEPT !.stage = "returned",
                                 !.remote = Append(@, "no playlist"),
                                 !.result = <<None, NoneDF, ApiNoData>>]
       \/ /\ crawl.pid # None
          /\ \E total \in Totals :
            crawl' = [crawl EXCEPT !.stage = "batches",
                                   !.remote = Append(@, "ok"),
                                   !.name = PlaylistName,
                                   !.track_ids = [k \in 1..total |-> str(k)],
                                   !.i = 0,
                                   !.all_songs = <<>>]
    /\ UNCHANGED <<flow, pc, inputs, pids, fetched, cache, crawled, engine, out>>
    /\ UNCHANGED <<normVars, engVars>>

\* lines 60-77, one batch: GetTrackDetail(chunk) answers every song, or
\* raises (or answers without 'songs'); line 77 (except: pass) then goes on
\* to the next batch
CrawlerBatch ==
    /\ crawl.stage = "batches"
    /\ crawl.i < Len(crawl.track_ids)
    /\ LET total == Len(crawl.track_ids)
           last == IF crawl.i + batch_size < total THEN crawl.i + batch_size ELSE total
           chunk == Slice(crawl.track_ids, crawl.i + 1, last)
           songs == TrackDetail(chunk)
           next == [crawl EXCEPT !.i = @ + batch_size]
       IN  \/ crawl' = [next EXCEPT !.remote = Append(@, "ok"),
                                    !.all_songs = @ \o [k \in 1..Len(songs) |->
                                                          SongRow(songs[k])]]
           \/ crawl' = [next EXCEPT !.remote = Append(@, "raise")]
    /\ UNCHANGED <<flow, pc, inputs, pids, fetched, cache, crawled, engine, out>>
    /\ UNCHANGED <<normVars, engVars>>

\* line 81, after the last batch
CrawlerReturn ==
    /\ crawl.stage = "batches"
    /\ crawl.i >= Len(crawl.track_ids)
    /\ crawl' = [crawl EXCEPT !.stage = "returned",
                              !.result = <<crawl.name, DataFrame(crawl.all_songs), None>>]
    /\ UNCHANGED <<flow, pc, inputs, pids, fetched, cache, crawled, engine, out>>
    /\ UNCHANGED <<normVars, engVars>>

(***************************************************************************)
(* Specification of the set-algebra functions on fetched playlists         *)
(***************************************************************************)
\* the most tracks of a playlist
MaxTracks == 2

\* the track ids the playlists are made of; the service may list one twice
CatalogueIds == {1, 2, 3}

\* the names of the playlists
Names == {<<"p", "l", "a", "y", "l", "i", "s", "t", "_", "a", ".", "c", "s", "v">>, <<"b">>}

NoCall == [fn |-> "none", mode |-> "", names |-> <<>>, dfs |-> <<>>, order |-> <<>>]

\* not part of the run
EngIdle ==
    /\ nameA = None /\ dfA = EmptyFrame
    /\ nameB = None /\ dfB = EmptyFrame
    /\ call = NoCall /\ ret = EmptyFrame

NormIdle == title = <<>> /\ nkey = None /\ npc = "off"

FlowIdle ==
    /\ flow = "off" /\ pc = "off"
    /\ inputs = [u1 |-> <<>>, u2 |-> <<>>, fuzzy |-> FALSE]
    /\ pids = <<None, None>>
    /\ fetched = <<NoFetch, NoFetch>>
    /\ cache = <<>>
    /\ crawl = NoCrawl
    /\ crawled = <<>>
    /\ engine = <<>>
    /\ out = NoOutput

\* logic_crawler returned both playlists without an error: the table of a
\* playlist is pd.DataFrame(all_songs)
EngInit ==
    /\ nameA \in Names
    /\ nameB \in Names
    /\ \E ta \in SeqsUpTo(CatalogueIds, MaxTracks) : dfA = DataFrame(SongRows(ta))
    /\ \E tb \in SeqsUpTo(CatalogueIds, MaxTracks) : dfB = DataFrame(SongRows(tb))
    /\ call = NoCall
    /\ ret = EmptyFrame
    /\ NormIdle
    /\ FlowIdle

\* the lists of tables a caller may pass
Lists == {<<>>, <<dfA>>, <<dfA, dfB>>, <<dfB, dfA>>, <<dfA, dfB, dfA>>}

\* the orders in which Python may iterate over a set of ids
Orders(ids) ==
    {f \in [1..Cardinality(ids) -> ids] : \A i, j \in DOMAIN f : i # j => f[i] # f[j]}

InternalCheck ==
    /\ call.fn = "none"
    /\ call' = [NoCall EXCEPT !.fn = "logic_internal_check", !.dfs = <<dfA>>]
    /\ ret' = logic_internal_check(dfA)
    /\ UNCHANGED <<nameA, dfA, nameB, dfB, normVars, flowVars>>

StrictIntersection ==
    /\ call.fn = "none"
    /\ \E dfs \in Lists :
        /\ call' = [NoCall EXCEPT !.fn = "logic_strict_intersection", !.dfs = dfs]
        /\ ret' = logic_strict_intersection(dfs)
    /\ UNCHANGED <<nameA, dfA, nameB, dfB, normVars, flowVars>>

FuzzyIntersection ==
    /\ call.fn = "none"
    /\ \E order \in Orders(IdSet(dfA.rows) \cup IdSet(dfB.rows)) :
        /\ call' = [NoCall EXCEPT !.fn = "logic_fuzzy_intersection",
                                  !.names = <<nameA, nameB>>,
                                  !.dfs = <<dfA, dfB>>, !.order = order]
        /\ ret' = logic_fuzzy_intersection(nameA, dfA, nameB, dfB, order)
    /\ UNCHANGED <<nameA, dfA, nameB, dfB, normVars, flowVars>>

Difference ==
    /\ call.fn = "none"
    /\ \E mode \in {"strict", "fuzzy"} :
        /\ call' = [NoCall EXCEPT !.fn = "logic_difference", !.mode = mode,
                                  !.dfs = <<dfA, dfB>>]
        /\ ret' = logic_difference(dfA, dfB, mode)
    /\ UNCHANGED <<nameA, dfA, nameB, dfB, normVars, flowVars>>

Union ==
    /\ call.fn = "none"
    /\ \E mode \in {"strict", "fuzzy"}, dfs \in Lists :
        /\ call' = [NoCall EXCEPT !.fn = "logic_union", !.mode = mode, !.dfs = dfs]
        /\ ret' = logic_union(dfs, mode)
    /\ UNCHANGED <<nameA, dfA, nameB, dfB, normVars, flowVars>>

EngNext ==
    \/ InternalCheck
    \/ StrictIntersection
    \/ FuzzyIntersection
    \/ Difference
    \/ Union

SpecEngine == EngInit /\ [][EngNext]_vars

(***************************************************************************)
(* Specification of the callers: the four modes of web_app.py and the      *)
(* module_crawler of main.py                                               *)
(***************************************************************************)
\* what the user may type into a text field: "7", "x?id=8&", "x"
RawInputs == {<<"7">>, <<"x", "?", "i", "d", "=", "8", "&">>, <<"x">>}

WebModes == {"internal", "intersection", "difference", "union"}

\* Python's truth of a string or None
Truthy(v) == v # None /\ v # <<>>

\* sanitize_filename: re.sub(r'[\\/:*?"<>|]', '_', str(name))
sanitize_filename(name) ==
    [k \in 1..Len(name) |->
        IF name[k] \in {"\\", "/", ":", "*", "?", "\"", "<", ">", "|"} THEN "_"
        ELSE name[k]]

FlowInit ==
    /\ flow = "idle" /\ pc = "idle"
    /\ inputs = [u1 |-> <<>>, u2 |-> <<>>, fuzzy |-> FALSE]
    /\ pids = <<None, None>>
    /\ fetched = <<NoFetch, NoFetch>>
    /\ cache = <<>>
    /\ crawl = NoCrawl
    /\ crawled = <<>>
    /\ engine = <<>>
    /\ out = NoOutput
    /\ NormIdle
    /\ EngIdle

\* The user picks a mode, fills the fields and presses the button (web), or
\* starts main.py and answers input() (cli): the script runs from the top.
Submit ==
    /\ pc = "idle"
    /\ \/ \E m \in {"internal", "cli"}, u \in RawInputs :
            /\ flow' = m
            /\ inputs' = [u1 |-> u, u2 |-> <<>>, fuzzy |-> FALSE]
       \/ \E m \in WebModes \ {"internal"}, u \in RawInputs, v \in RawInputs,
             fz \in BOOLEAN :
            /\ flow' = m
            /\ inputs' = [u1 |-> u, u2 |-> v, fuzzy |-> fz]
    /\ pc' = "parse"
    /\ UNCHANGED <<pids, fetched, cache, crawl, crawled, engine, out>>
    /\ UNCHANGED <<normVars, engVars>>

\* the script has run to its end (or to its exception); only the cache of
\* cached_fetch outlives the run
EndOfRun ==
    /\ pc = "done"
    /\ flow' = "idle" /\ pc' = "idle"
    /\ inputs' = [u1 |-> <<>>, u2 |-> <<>>, fuzzy |-> FALSE]
    /\ pids' = <<None, None>>
    /\ fetched' = <<NoFetch, NoFetch>>
    /\ crawl' = NoCrawl
    /\ crawled' = <<>>
    /\ engine' = <<>>
    /\ out' = NoOutput
    /\ UNCHANGED <<cache, normVars, engVars>>

\* web_app.py 77-78, 124-125, 174-175, 202-203; main.py 208-210
Parse ==
    /\ pc = "parse"
    /\ LET p1 == parse_id(inputs.u1)
           p2 == parse_id(inputs.u2)
       IN  IF flow = "cli"
           THEN \* logic_crawler(pid) is called with whatever parse_id returned
                /\ pids' = <<p1, None>>
                /\ crawl' = CrawlStart(p1)
                /\ crawled' = Append(crawled, p1)
                /\ pc' = "await1"
                /\ out' = out
           ELSE IF flow = "internal"
           THEN /\ pids' = <<p1, None>>
                /\ IF ~Truthy(p1)
                   THEN pc' = "done" /\ out' = [kind |-> "error", text |-> <<"invalid id">>]
                   ELSE pc' = "fetch1" /\ out' = out
                /\ UNCHANGED <<crawl, crawled>>
           ELSE /\ pids' = <<p1, p2>>
                /\ pc' = IF Truthy(p1) /\ Truthy(p2) THEN "fetch1" ELSE "done"
                /\ UNCHANGED <<crawl, crawled, out>>
    /\ UNCHANGED <<flow, inputs, fetched, cache, engine>>
    /\ UNCHANGED <<normVars, engVars>>

\* where a web run goes after its k-th fetch
AfterFetch(k) == IF flow # "internal" /\ k = 1 THEN "fetch2" ELSE "decide"

\* cached_fetch(pid): the cached value, or a call of logic_crawler
CachedFetch ==
    /\ \E k \in {1, 2} :
        /\ pc = (IF k = 1 THEN "fetch1" ELSE "fetch2")
        /\ IF pids[k] \in DOMAIN cache
           THEN /\ fetched' = [fetched EXCEPT ![k] = cache[pids[k]]]
                /\ pc' = AfterFetch(k)
                /\ UNCHANGED <<crawl, crawled>>
           ELSE /\ crawl' = CrawlStart(pids[k])
                /\ crawled' = Append(crawled, pids[k])
                /\ pc' = (IF k = 1 THEN "await1" ELSE "await2")
                /\ UNCHANGED fetched
    /\ UNCHANGED <<flow, inputs, pids, cache, engine, out>>
    /\ UNCHANGED <<normVars, engVars>>

\* logic_crawler has returned: st.cache_data keeps the value (web)
FetchReturn ==
    /\ crawl.stage = "returned"
    /\ \E k \in {1, 2} :
        /\ pc = (IF k = 1 THEN "await1" ELSE "await2")
        /\ fetched' = [fetched EXCEPT ![k] = crawl.result]
        /\ IF flow = "cli"
           THEN pc' = "decide" /\ cache' = cache
           ELSE /\ pc' = AfterFetch(k)
                /\ cache' = [p \in DOMAIN cache \cup {pids[k]} |->
                               IF p = pids[k] THEN crawl.result ELSE cache[p]]
    /\ crawl' = NoCrawl
    /\ UNCHANGED <<flow, inputs, pids, crawled, engine, out>>
    /\ UNCHANGED <<normVars, engVars>>

\* ttl=3600: a cached value expires
CacheExpire ==
    /\ \E p \in DOMAIN cache : cache' = [q \in DOMAIN cache \ {p} |-> cache[q]]
    /\ UNCHANGED <<flow, pc, inputs, pids, fetched, crawl, crawled, engine, out>>
    /\ UNCHANGED <<normVars, engVars>>

\* a call of a set-algebra function: which one, and which of its tables are
\* None (the call then raises, and the run ends with the exception)
EngineCall(fn, mode, dfs) ==
    [fn |-> fn, mode |-> mode, nulls |-> {k \in 1..Len(dfs) : IsNone(dfs[k])}]

Shown(e) == [kind |-> IF e.nulls = {} THEN "result" ELSE "exception", text |-> <<>>]

\* what each caller does with what it fetched: web_app.py 83-88, 130-150,
\* 176-180, 204-208; main.py 211-215
Decide ==
    /\ pc = "decide"
    /\ LET e1 == fetched[1][3]
           e2 == fetched[2][3]
           d1 == fetched[1][2]
           d2 == fetched[2][2]
           m == IF inputs.fuzzy THEN "fuzzy" ELSE "strict"
           called(e) == engine' = Append(engine, e) /\ out' = Shown(e)
       IN  CASE flow = "internal" ->
                  IF Truthy(e1)
                  THEN engine' = engine /\ out' = [kind |-> "error", text |-> e1]
                  ELSE IF IsNone(d1)
                  THEN \* len(df) raises before the call
                       engine' = engine /\ out' = [kind |-> "exception", text |-> <<>>]
                  ELSE called(EngineCall("logic_internal_check", "", <<d1>>))
             [] flow = "intersection" ->
                  IF Truthy(e1) \/ Truthy(e2)
                  THEN engine' = engine /\ out' = [kind |-> "error", text |-> <<"load">>]
                  ELSE IF inputs.fuzzy
                  THEN called(EngineCall("logic_fuzzy_intersection", "", <<d1, d2>>))
                  ELSE called(EngineCall("logic_strict_intersection", "", <<d1, d2>>))
             [] flow = "difference" ->
                  \* the errors were assigned to _ and never looked at
                  called(EngineCall("logic_difference", m, <<d1, d2>>))
             [] flow = "union" ->
                  called(EngineCall("logic_union", m, <<d1, d2>>))
             [] flow = "cli" ->
                  /\ engine' = engine
                  /\ out' = IF ~IsNone(d1)
                            THEN [kind |-> "csv",
                                  text |-> <<"p", "l", "a", "y", "l", "i", "s", "t", "_">>
                                           \o sanitize_filename(fetched[1][1])
                                           \o <<".", "c", "s", "v">>]
                            ELSE [kind |-> "print", text |-> e1]
    /\ pc' = "done"
    /\ UNCHANGED <<flow, inputs, pids, fetched, cache, crawl, crawled>>
    /\ UNCHANGED <<normVars, engVars>>

FlowNext ==
    \/ Submit
    \/ Parse
    \/ CachedFetch
    \/ CrawlerGetInfo
    \/ CrawlerBatch
    \/ CrawlerReturn
    \/ FetchReturn
    \/ CacheExpire
    \/ Decide
    \/ EndOfRun

SpecFlow == FlowInit /\ [][FlowNext]_vars

(***************************************************************************)
(* C1, C3, C10: the callers and logic_crawler                              *)
(***************************************************************************)
\* C1: in every caller flow, no set-algebra function is invoked with the null
\* collection of a fetch that returned an error.
C1_NoEngineCallOnNull ==
    \A k \in 1..Len(engine) : engine[k].nulls = {}

\* what the Retrieval Adapter's contract accepts: a string of digits, or a
\* string that contains id=<digits>
Acceptable(u) ==
    \/ u # <<>> /\ \A k \in 1..Len(u) : IsDigit(u[k])
    \/ \E k \in 1..Len(u) : IdMatchAt(u, k)

\* C3: parse_id accepts an input only if it is a string of digits or contains
\* id=<digits>, and logic_crawler is never called for an input it rejects.
C3_RejectedInputNeverCrawled ==
    /\ pc \notin {"idle", "parse"} =>
          /\ pids[1] # None => Acceptable(inputs.u1)
          /\ pids[2] # None => Acceptable(inputs.u2)
    /\ \A k \in 1..Len(crawled) : crawled[k] # None

\* C10: when logic_crawler returns after any remote call failed, it returns
\* an error string with null name and null collection; a return without an
\* error has every track id of the playlist in the collection.
C10_FailureIsReported ==
    crawl.stage = "returned" =>
        LET name == crawl.result[1]
            df == crawl.result[2]
            err == crawl.result[3]
        IN  /\ (\E k \in 1..Len(crawl.remote) : crawl.remote[k] # "ok")
                  => err # None /\ name = None /\ IsNone(df)
            /\ err = None =>
                  \A k \in 1..Len(crawl.track_ids) : crawl.track_ids[k] \in IdSet(df.rows)

(***************************************************************************)
(* C2, C4 - C8: the set-algebra functions                                  *)
(***************************************************************************)
\* the Normalized Title Key of a record
KeyOf(row) == normalize_title(row["title"])

\* the table a call returned (logic_fuzzy_intersection returns it in a pair)
ResultTable(r) == IF "df" \in DOMAIN r THEN r.df ELSE r

\* the rows a call returned, none if it raised
ResultRows(r) == IF IsRaised(r) THEN <<>> ELSE ResultTable(r).rows

\* zero track records
HasNoRows(df) == df.rows = <<>>

\* C2: whenever an input collection of a set-algebra call has no track
\* records, the call completes without failure and returns an empty table.
C2_EmptyInputGivesEmptyTable ==
    (call.fn # "none" /\ \E k \in 1..Len(call.dfs) : HasNoRows(call.dfs[k]))
        => ~IsRaised(ret) /\ ResultRows(ret) = <<>>

\* the ids of the records of df whose key is key
IdsUnder(df, key) ==
    {df.rows[k]["id"] : k \in {j \in 1..Len(df.rows) : KeyOf(df.rows[j]) = key}}

KeysOf(df) == {KeyOf(df.rows[k]) : k \in 1..Len(df.rows)}

\* the positions of the result's rows of a key, a tag and an id
RowsAt(rows, key, tag, id) ==
    {k \in 1..Len(rows) :
        rows[k][MatchKeyCol] = key /\ rows[k]["source"] = tag /\ rows[k]["id"] = id}

\* the first record of df with this key and id
FirstRecord(df, key, id) ==
    df.rows[CHOOSE k \in 1..Len(df.rows) :
               /\ KeyOf(df.rows[k]) = key /\ df.rows[k]["id"] = id
               /\ \A j \in 1..(k - 1) :
                     ~(KeyOf(df.rows[j]) = key /\ df.rows[j]["id"] = id)]

SameSong(row, rec) ==
    row["title"] = rec["title"] /\ row["artist"] = rec["artist"]
    /\ row["album"] = rec["album"]

\* C4: logic_fuzzy_intersection(nameA, A, nameB, B): for every key of both A
\* and B, with idsA and idsB the ids of the records of A and of B under it,
\* the result has exactly one row tagged "both" for each id of idsA \cap idsB,
\* carrying A's title, artist and album, rows tagged with A's label for
\* exactly the ids of idsA \ idsB and rows tagged with B's label for exactly
\* the ids of idsB \ idsA; it has no row of any other key or tag.
C4_FuzzyIntersectionRows ==
    call.fn = "logic_fuzzy_intersection" =>
        LET A == call.dfs[1]
            B == call.dfs[2]
            tagA == <<"[", "A", "]", " ">> \o ShortName(call.names[1])
            tagB == <<"[", "B", "]", " ">> \o ShortName(call.names[2])
            rows == ResultRows(ret)
            ids == IdSet(A.rows) \cup IdSet(B.rows)
        IN  /\ \A key \in KeysOf(A) \cap KeysOf(B) :
                LET idsA == IdsUnder(A, key)
                    idsB == IdsUnder(B, key)
                IN  \A id \in ids :
                      /\ Cardinality(RowsAt(rows, key, BothTag, id))
                            = IF id \in idsA \cap idsB THEN 1 ELSE 0
                      /\ \A k \in RowsAt(rows, key, BothTag, id) :
                            SameSong(rows[k], FirstRecord(A, key, id))
                      /\ (RowsAt(rows, key, tagA, id) # {}) <=> (id \in idsA \ idsB)
                      /\ \A k \in RowsAt(rows, key, tagA, id) :
                            SameSong(rows[k], FirstRecord(A, key, id))
                      /\ (RowsAt(rows, key, tagB, id) # {}) <=> (id \in idsB \ idsA)
                      /\ \A k \in RowsAt(rows, key, tagB, id) :
                            SameSong(rows[k], FirstRecord(B, key, id))
            /\ \A k \in 1..Len(rows) :
                  /\ rows[k][MatchKeyCol] \in KeysOf(A) \cap KeysOf(B)
                  /\ rows[k]["source"] \in {BothTag, tagA, tagB}

\* a fuzzy intersection has returned rows of all three tags
C4_Witness ==
    /\ call.fn = "logic_fuzzy_intersection"
    /\ ~IsRaised(ret)
    /\ \E i, j, k \in 1..Len(ret.df.rows) :
          /\ ret.df.rows[i]["source"] = BothTag
          /\ ret.df.rows[j]["source"] = TagA(call.names[1])
          /\ ret.df.rows[k]["source"] = TagB(call.names[2])
          /\ TagA(call.names[1]) = <<"[", "A", "]", " ", "a">>

\* the ids that occur in every table of a list
InAll(dfs) == {id \in IdSet(dfs[1].rows) : \A k \in 1..Len(dfs) : id \in IdSet(dfs[k].rows)}

AllIds(dfs) == UNION {IdSet(dfs[k].rows) : k \in 1..Len(dfs)}

\* C5: logic_strict_intersection(dfs), for a non-empty list of collections
\* (an id may occur twice in one), returns exactly one row for each id that
\* occurs in every collection and no row for any other id, with base columns
\* only.  (Stated of the calls that return; the calls that raise are C2's.)
C5_OneRowPerSharedId ==
    (call.fn = "logic_strict_intersection" /\ call.dfs # <<>> /\ ~IsRaised(ret)) =>
        /\ ret.cols \subseteq base_cols
        /\ \A id \in AllIds(call.dfs) :
              Cardinality({k \in 1..Len(ret.rows) : ret.rows[k]["id"] = id})
                 = IF id \in InAll(call.dfs) THEN 1 ELSE 0

\* the rows that are the first of their id (strict) or key (fuzzy)
MatchOf(row, mode) == IF mode = "strict" THEN row["id"] ELSE KeyOf(row)

FirstOfEach(rows, mode) ==
    SelectRows(rows, {k \in 1..Len(rows) :
                         \A j \in 1..(k - 1) : MatchOf(rows[j], mode) # MatchOf(rows[k], mode)})

\* C6: logic_union(dfs, mode), for any list of collections, returns exactly
\* the rows of the concatenation that are the earliest of their id (strict)
\* or key (fuzzy), in concatenation order, without the helper key column.
C6_UnionKeepsFirst ==
    call.fn = "logic_union" =>
        /\ ~IsRaised(ret)
        /\ ret.rows = FirstOfEach(ConcatRows(call.dfs), call.mode)
        /\ "clean_title" \notin ret.cols

\* C7: logic_difference(A, B, mode) returns exactly the rows of A, in A's
\* order and with A's columns, whose id (strict) or key (fuzzy) does not
\* occur in B.
C7_DifferenceIsFilterOfA ==
    call.fn = "logic_difference" =>
        LET A == call.dfs[1]
            B == call.dfs[2]
            inB == {MatchOf(B.rows[k], call.mode) : k \in 1..Len(B.rows)}
        IN  /\ ~IsRaised(ret)
            /\ ret.cols = A.cols
            /\ ret.rows = SelectRows(A.rows, {k \in 1..Len(A.rows) :
                                                 MatchOf(A.rows[k], call.mode) \notin inB})

\* a record as logic_internal_check shows it
AsShown(row) ==
    [c \in {MatchKeyCol, "title", "artist", "album", "duration"} |->
        IF c = MatchKeyCol THEN KeyOf(row) ELSE row[c]]

\* the rows of df whose key another row of df has, as shown
SharedKeyRows(df) ==
    LET shared == SelectRows(df.rows,
                     {k \in 1..Len(df.rows) :
                         \E j \in 1..Len(df.rows) :
                             j # k /\ KeyOf(df.rows[j]) = KeyOf(df.rows[k])})
    IN  [k \in 1..Len(shared) |-> AsShown(shared[k])]

Occurrences(rows, row) == Cardinality({k \in 1..Len(rows) : rows[k] = row})

\* C8: logic_internal_check(df) returns exactly the records of df whose key
\* at least two records of df share, in ascending order of (key, artist), and
\* an empty table when no key is shared.
C8_InternalCheckRows ==
    call.fn = "logic_internal_check" =>
        LET want == SharedKeyRows(call.dfs[1])
            rows == ResultRows(ret)
        IN  /\ ~IsRaised(ret)
            /\ Len(rows) = Len(want)
            /\ \A k \in 1..Len(want) : Occurrences(rows, want[k]) = Occurrences(want, want[k])
            /\ \A k \in 1..(Len(rows) - 1) :
                  \/ StrLess(rows[k][MatchKeyCol], rows[k + 1][MatchKeyCol])
                  \/ /\ rows[k][MatchKeyCol] = rows[k + 1][MatchKeyCol]
                     /\ StrLeq(rows[k]["artist"], rows[k + 1]["artist"])

(***************************************************************************)
(* Specification of normalize_title on every title up to MaxTitleLen       *)
(***************************************************************************)
MaxTitleLen == 4

TitleChars == {" ", "(", ")", "-", "A", "a", "FW(", "FW)"}

NormInit ==
    /\ title \in SeqsUpTo(TitleChars, MaxTitleLen)
    /\ nkey = None
    /\ npc = "call"
    /\ EngIdle
    /\ FlowIdle

NormalizeCall ==
    /\ npc = "call"
    /\ nkey' = normalize_title(title)
    /\ npc' = "done"
    /\ UNCHANGED <<title, engVars, flowVars>>

NormNext == NormalizeCall

SpecNormalize == NormInit /\ [][NormNext]_vars

(***************************************************************************)
(* C9                                                                      *)
(***************************************************************************)
\* removing the first parenthetical span again and again until none is left
RECURSIVE RemoveEverySpan(_)
RemoveEverySpan(s) ==
    IF ParenSearch(s, 1) = 0 THEN s
    ELSE RemoveEverySpan(Slice(s, 1, ParenSearch(s, 1) - 1)
                         \o Slice(s, ParenMatchEnd(s, ParenSearch(s, 1)) + 1, Len(s)))

\* no opening parenthesis with a closing one after it
NoSpanLeft(s) ==
    \A i \in 1..Len(s) : \A j \in (i + 1)..Len(s) : ~(IsOpen(s[i]) /\ IsClose(s[j]))

\* C9 as stated: normalize_title removes only the first parenthetical span of
\* the title; later groups stay in the text that is cut at the first hyphen
\* and trimmed.
C9_OnlyFirstSpanRemoved ==
    npc = "done" => nkey = strip(SplitHyphen(ParenSubFirstOnly(lower(title))))

\* C9 amended: normalize_title removes every parenthetical span of the
\* lowercased title (leftmost opening parenthesis to the nearest closing one,
\* with the blanks before it, again and again from the left), so that no
\* opening parenthesis with a closing one after it is left; what remains is
\* cut at the first hyphen and trimmed.
C9_EverySpanRemoved ==
    npc = "done" =>
        /\ nkey = strip(SplitHyphen(RemoveEverySpan(lower(title))))
        /\ NoSpanLeft(nkey)

\* a title of two parenthetical groups has been normalized, to nothing
C9_Witness ==
    /\ npc = "done"
    /\ Len(title) = 4
    /\ IsOpen(title[1]) /\ IsClose(title[2]) /\ IsOpen(title[3]) /\ IsClose(title[4])
    /\ nkey = <<>>

=============================================================================
